---- MODULE Spec2Model ----
(***************************************************************************)
(* Package dist (EvolBioInf/dist): distance matrices in PHYLIP format.     *)
(*                                                                         *)
(* A DistMat is a slice of taxon names and a matrix of float64 distances;  *)
(* a Scanner reads DistMats from a buffered character stream.              *)
(*                                                                         *)
(* Representation.                                                         *)
(*   - Text is a sequence of one-character strings.                        *)
(*   - A float64 x is stored as the integer 2x, so that the mean of two    *)
(*     integral distances is exact (ExactMeans checks that no mean is      *)
(*     ever rounded).  +Inf, -Inf and NaN are the values PosInf, NegInf    *)
(*     and NaN; FLess and FMean give them their IEEE-754 behaviour.        *)
(*   - Slices are held by value.  Under Spec the caller of Append hands    *)
(*     over a data slice it does not keep.  Under SpecAlias the caller     *)
(*     keeps its slice: cdata is the slice with its backing array, and     *)
(*     shared tells which matrices have that array as their last row.      *)
(*   - log.Fatalf ends the process with status "fatal", a run-time panic   *)
(*     (index out of range, negative make) with status "panic".            *)
(***************************************************************************)
EXTENDS Integers, Sequences, FiniteSets, TLC

VARIABLES
    rest,     \* Scanner.r: the characters of the stream not yet read
    smat,     \* Scanner.mat: the DistMat the scanner points to (id 0: nil)
    own,      \* a DistMat the caller made with NewDistMat (id 0: none yet)
    nextId,   \* identity given to the next DistMat that NewDistMat allocates
    status,   \* "ok", or how the process ended: "fatal" / "panic"
    src,      \* history: the segments the stream was written from
    results,  \* history: what each Scan call returned, in call order
    goodId,   \* history: identity of the DistMat built by the last Scan
              \*          that returned true (0: none)
    last,     \* history: the last call, its arguments, the DistMat it began
              \*          with and what it returned
    prev,     \* history: the call before the last one
    kept,     \* history: every call so far met the preconditions of its method
    nEdits,   \* number of DistMat method calls made so far
    cdata,    \* the caller's data slice: its backing array (arr, as long as
              \*   the capacity), its length (len), whether it was made yet
    shared,   \* the targets whose last matrix row is stored in cdata.arr
    seen      \* history: both matrices and the caller's data as they were
              \*          before the last call of a caller who keeps its slice

vars == <<rest, smat, own, nextId, status, src, results, goodId, last, prev, kept, nEdits,
          cdata, shared, seen>>

---------------------------------------------------------------------------
(* Bounds of the model.                                                    *)

MaxSegs  == 3    \* segments in a stream that is only scanned (SpecScan)
MaxScans == 4    \* Scan calls
MaxEdits == 2    \* DistMat method calls
MaxN     == 4    \* taxa in a matrix that Append may grow
MaxAlias == 3    \* calls of a caller who keeps its data slice (SpecAlias)

---------------------------------------------------------------------------
(* Characters and the strings/strconv functions Scan uses.                 *)

Digits == {"0", "1", "2", "3", "4", "5", "6", "7", "8", "9"}

\* unicode.IsSpace, over the characters of the model's streams
White == {" ", "\t", "\n", "\r"}

\* The alphabet of the model's streams: digits, signs, white space and the
\* letters below.  It has no ".", "e", "p" or "_", so a finite number is an
\* optionally signed run of digits.
Letters == {"A", "B", "C", "a", "b", "c", "x", "I", "n", "f"}

Lower(c) ==
    CASE c = "A" -> "a" [] c = "B" -> "b" [] c = "C" -> "c"
      [] c = "I" -> "i" [] OTHER -> c

RECURSIVE LowerStr(_)
LowerStr(s) ==
    IF Len(s) = 0 THEN <<>>
    ELSE Append(LowerStr(SubSeq(s, 1, Len(s) - 1)), Lower(s[Len(s)]))

DigitVal(c) ==
    CASE c = "0" -> 0 [] c = "1" -> 1 [] c = "2" -> 2 [] c = "3" -> 3
      [] c = "4" -> 4 [] c = "5" -> 5 [] c = "6" -> 6 [] c = "7" -> 7
      [] c = "8" -> 8 [] c = "9" -> 9

\* the place in a stream where a Read of the underlying io.Reader returns
\* an error once; the Reads after it deliver the text that follows
IOErr == "EIO"

\* bufio.Reader.ReadString('\n'): the characters up to and including the
\* first "\n".  At end of stream what is left, with err = io.EOF.  Where the
\* underlying reader fails before a "\n" is found: what was read so far, with
\* the reader's error; bufio forgets the error, so the next call reads on.
ReadString(r) ==
    IF \E i \in 1..Len(r) : r[i] \in {"\n", IOErr}
    THEN LET k == CHOOSE i \in 1..Len(r) :
                     r[i] \in {"\n", IOErr} /\ \A j \in 1..(i-1) : r[j] \notin {"\n", IOErr}
         IN  IF r[k] = "\n"
             THEN [l |-> SubSeq(r, 1, k), err |-> FALSE, rest |-> SubSeq(r, k+1, Len(r))]
             ELSE [l |-> SubSeq(r, 1, k-1), err |-> TRUE, rest |-> SubSeq(r, k+1, Len(r))]
    ELSE [l |-> r, err |-> TRUE, rest |-> <<>>]

\* strings.IndexAny(l, "1234567890") < 0
NoDigit(l) == \A i \in 1..Len(l) : l[i] \notin Digits

\* strings.TrimRight(l, "\r\n")
RECURSIVE TrimRight(_)
TrimRight(l) ==
    IF Len(l) > 0 /\ l[Len(l)] \in {"\r", "\n"}
    THEN TrimRight(SubSeq(l, 1, Len(l) - 1))
    ELSE l

\* value of a run of decimal digits
RECURSIVE DigitsVal(_)
DigitsVal(s) ==
    IF Len(s) = 0 THEN 0
    ELSE 10 * DigitsVal(SubSeq(s, 1, Len(s) - 1)) + DigitVal(s[Len(s)])

AllDigits(s) == Len(s) > 0 /\ \A i \in 1..Len(s) : s[i] \in Digits

Unsigned(s) == IF Len(s) > 0 /\ s[1] \in {"+", "-"} THEN Tail(s) ELSE s

Negative(s) == Len(s) > 0 /\ s[1] = "-"

\* strconv.Atoi: an optional sign and decimal digits, nothing else
Atoi(s) ==
    IF AllDigits(Unsigned(s))
    THEN [err |-> FALSE,
          n |-> IF Negative(s) THEN 0 - DigitsVal(Unsigned(s)) ELSE DigitsVal(Unsigned(s))]
    ELSE [err |-> TRUE, n |-> 0]

\* strings.Fields: the maximal runs of non-space characters, in order
RECURSIVE FieldsFrom(_, _, _)
FieldsFrom(l, i, cur) ==
    IF i > Len(l)
    THEN IF Len(cur) > 0 THEN <<cur>> ELSE <<>>
    ELSE IF l[i] \in White
         THEN IF Len(cur) > 0 THEN <<cur>> \o FieldsFrom(l, i + 1, <<>>)
                              ELSE FieldsFrom(l, i + 1, <<>>)
         ELSE FieldsFrom(l, i + 1, Append(cur, l[i]))

Fields(l) == FieldsFrom(l, 1, <<>>)

---------------------------------------------------------------------------
(* float64.                                                                *)

MaxFloat64 == 1000000              \* math.MaxFloat64, above every finite distance of the model
PosInf == MaxFloat64 + 1           \* +Inf
NegInf == 0 - PosInf               \* -Inf
NaN    == MaxFloat64 + 2           \* NaN

\* a < b on float64: false when either side is NaN
FLess(a, b) == a # NaN /\ b # NaN /\ a < b

\* (a + b) / 2.0 on float64
FMean(a, b) ==
    IF a = NaN \/ b = NaN THEN NaN
    ELSE IF {a, b} = {PosInf, NegInf} THEN NaN
    ELSE IF a = PosInf \/ b = PosInf THEN PosInf
    ELSE IF a = NegInf \/ b = NegInf THEN NegInf
    ELSE (a + b) \div 2

\* strconv.ParseFloat(s, 64) over the model's alphabet: a signed run of
\* digits, a signed "inf", or "nan" (letters in either case).
ParseFloat(s) ==
    IF AllDigits(Unsigned(s))
    THEN [err |-> FALSE,
          f |-> IF Negative(s) THEN 0 - 2 * DigitsVal(Unsigned(s))
                               ELSE 2 * DigitsVal(Unsigned(s))]
    ELSE IF LowerStr(Unsigned(s)) = <<"i", "n", "f">>
    THEN [err |-> FALSE, f |-> IF Negative(s) THEN NegInf ELSE PosInf]
    ELSE IF LowerStr(s) = <<"n", "a", "n">>
    THEN [err |-> FALSE, f |-> NaN]
    ELSE [err |-> TRUE, f |-> 0]

---------------------------------------------------------------------------
(* DistMat: Names []string and Matrix [][]float64.  id tells the objects   *)
(* apart (id 0 is the nil *DistMat).                                       *)

NilMat == [id |-> 0, Names |-> <<>>, Matrix |-> <<>>]

\* make([]T, n): n zero values of T
RECURSIVE Make(_, _)
Make(zero, n) == IF n <= 0 THEN <<>> ELSE Append(Make(zero, n - 1), zero)

\* NewDistMat(n), n >= 0: n empty names, an n x n matrix of zeros
NewDistMat(n, id) ==
    [id |-> id,
     Names |-> Make(<<>>, n),
     Matrix |-> Make(Make(0, n), n)]

\* d.Matrix[i][j] is inside the slices (i, j count from 0)
InRange(M, i, j) == i >= 0 /\ i < Len(M) /\ j >= 0 /\ j < Len(M[i + 1])

\* SymLoop without the "d.Matrix[j][i] = a"
RECURSIVE SymLoopUpper(_, _, _, _)
SymLoopUpper(M, n, i, j) ==
    IF i >= n - 1 THEN [M |-> M, panic |-> FALSE]
    ELSE IF j >= n THEN SymLoopUpper(M, n, i + 1, i + 2)
    ELSE IF ~(InRange(M, i, j) /\ InRange(M, j, i)) THEN [M |-> M, panic |-> TRUE]
    ELSE LET a == FMean(M[i + 1][j + 1], M[j + 1][i + 1])
         IN  SymLoopUpper([M EXCEPT ![i + 1][j + 1] = a], n, i, j + 1)

\* MakeSymmetrical, the two loops: position (i, j) with i < j < n
RECURSIVE SymLoop(_, _, _, _)
SymLoop(M, n, i, j) ==
    IF i >= n - 1 THEN [M |-> M, panic |-> FALSE]
    ELSE IF j >= n THEN SymLoop(M, n, i + 1, i + 2)
    ELSE IF ~(InRange(M, i, j) /\ InRange(M, j, i)) THEN [M |-> M, panic |-> TRUE]
    ELSE LET a == FMean(M[i + 1][j + 1], M[j + 1][i + 1])
         IN  SymLoop([M EXCEPT ![i + 1][j + 1] = a, ![j + 1][i + 1] = a], n, i, j + 1)

MakeSymmetrical(d) ==
    LET r == SymLoop(d.Matrix, Len(d.Matrix), 0, 1)
    IN  [d |-> [d EXCEPT !.Matrix = r.M],
         out |-> IF r.panic THEN "panic" ELSE "ok",
         ret |-> <<>>]

\* DeleteNames without the final d.Names = d.Names[:j]
RECURSIVE DeleteNamesNoCut(_, _, _, _)
DeleteNamesNoCut(names, taxon, i, j) ==
    IF i >= Len(names) THEN names
    ELSE IF i # taxon
         THEN DeleteNamesNoCut([names EXCEPT ![j + 1] = names[i + 1]], taxon, i + 1, j + 1)
         ELSE DeleteNamesNoCut(names, taxon, i + 1, j)

\* Delete, the loop over d.Names: name i moves to position j unless i = taxon
RECURSIVE DeleteNames(_, _, _, _)
DeleteNames(names, taxon, i, j) ==
    IF i >= Len(names) THEN SubSeq(names, 1, j)
    ELSE IF i # taxon
         THEN DeleteNames([names EXCEPT ![j + 1] = names[i + 1]], taxon, i + 1, j + 1)
         ELSE DeleteNames(names, taxon, i + 1, j)

\* DeleteCells without the "if j == taxon { continue }" of the inner loop
RECURSIVE DeleteCellsRowOnly(_, _, _, _, _, _, _)
DeleteCellsRowOnly(M, n, taxon, i, ii, j, jj) ==
    IF i >= n THEN [M |-> M, panic |-> FALSE]
    ELSE IF i = taxon THEN DeleteCellsRowOnly(M, n, taxon, i + 1, ii, 0, 0)
    ELSE IF j >= n THEN DeleteCellsRowOnly(M, n, taxon, i + 1, ii + 1, 0, 0)
    ELSE IF ~(InRange(M, i, j) /\ InRange(M, ii, jj)) THEN [M |-> M, panic |-> TRUE]
    ELSE DeleteCellsRowOnly([M EXCEPT ![ii + 1][jj + 1] = M[i + 1][j + 1]],
                            n, taxon, i, ii, j + 1, jj + 1)

\* Delete, the loops over the matrix: cell (i, j) moves to (ii, jj)
RECURSIVE DeleteCells(_, _, _, _, _, _, _)
DeleteCells(M, n, taxon, i, ii, j, jj) ==
    IF i >= n THEN [M |-> M, panic |-> FALSE]
    ELSE IF i = taxon THEN DeleteCells(M, n, taxon, i + 1, ii, 0, 0)
    ELSE IF j >= n THEN DeleteCells(M, n, taxon, i + 1, ii + 1, 0, 0)
    ELSE IF j = taxon THEN DeleteCells(M, n, taxon, i, ii, j + 1, jj)
    ELSE IF ~(InRange(M, i, j) /\ InRange(M, ii, jj)) THEN [M |-> M, panic |-> TRUE]
    ELSE DeleteCells([M EXCEPT ![ii + 1][jj + 1] = M[i + 1][j + 1]],
                     n, taxon, i, ii, j + 1, jj + 1)

\* DeleteReslice without the final d.Matrix = d.Matrix[:n]
RECURSIVE DeleteResliceRowsOnly(_, _, _)
DeleteResliceRowsOnly(M, n, i) ==
    IF i < n
    THEN IF ~(i < Len(M) /\ n <= Len(M[i + 1])) THEN [M |-> M, panic |-> TRUE]
         ELSE DeleteResliceRowsOnly([M EXCEPT ![i + 1] = SubSeq(M[i + 1], 1, n)], n, i + 1)
    ELSE [M |-> M, panic |-> FALSE]

\* Delete, the reslicing: row i is cut to [:n] for i < n, the matrix to [:n]
\* (n is the decremented count)
RECURSIVE DeleteReslice(_, _, _)
DeleteReslice(M, n, i) ==
    IF i < n
    THEN IF ~(i < Len(M) /\ n <= Len(M[i + 1])) THEN [M |-> M, panic |-> TRUE]
         ELSE DeleteReslice([M EXCEPT ![i + 1] = SubSeq(M[i + 1], 1, n)], n, i + 1)
    ELSE IF n < 0 \/ n > Len(M) THEN [M |-> M, panic |-> TRUE]
         ELSE [M |-> SubSeq(M, 1, n), panic |-> FALSE]

Delete(d, taxon) ==
    LET names == DeleteNames(d.Names, taxon, 0, 0)
        n     == Len(d.Matrix)
        c     == DeleteCells(d.Matrix, n, taxon, 0, 0, 0, 0)
        r     == IF c.panic THEN c ELSE DeleteReslice(c.M, n - 1, 0)
    IN  [d |-> [d EXCEPT !.Names = names, !.Matrix = r.M],
         out |-> IF r.panic THEN "panic" ELSE "ok",
         ret |-> <<>>]

\* DeletePair as two calls of Delete with the indices as given, the second
\* one not renumbered
DeletePairTwoStep(d, t1, t2) ==
    LET r1 == Delete(d, t1)
    IN  IF r1.out # "ok" THEN r1 ELSE Delete(r1.d, t2)

\* DeletePair, the loop over d.Names
RECURSIVE DeletePairNames(_, _, _, _, _)
DeletePairNames(names, t1, t2, i, j) ==
    IF i >= Len(names) THEN SubSeq(names, 1, j)
    ELSE IF i # t1 /\ i # t2
         THEN DeletePairNames([names EXCEPT ![j + 1] = names[i + 1]], t1, t2, i + 1, j + 1)
         ELSE DeletePairNames(names, t1, t2, i + 1, j)

\* DeletePair, the loop over the rows: row i moves to position r
RECURSIVE DeletePairRows(_, _, _, _, _)
DeletePairRows(M, t1, t2, i, r) ==
    IF i >= Len(M) THEN SubSeq(M, 1, r)
    ELSE IF i = t1 \/ i = t2 THEN DeletePairRows(M, t1, t2, i + 1, r)
    ELSE DeletePairRows([M EXCEPT ![r + 1] = M[i + 1]], t1, t2, i + 1, r + 1)

\* DeletePair, the loop over the columns of one row: entry j moves to c
RECURSIVE DeletePairCols(_, _, _, _, _)
DeletePairCols(row, t1, t2, j, c) ==
    IF j >= Len(row) THEN SubSeq(row, 1, c)
    ELSE IF j = t1 \/ j = t2 THEN DeletePairCols(row, t1, t2, j + 1, c)
    ELSE DeletePairCols([row EXCEPT ![c + 1] = row[j + 1]], t1, t2, j + 1, c + 1)

\* DeletePair, the loop over the rows that are left: row i loses its columns
RECURSIVE DeletePairMatrix(_, _, _, _)
DeletePairMatrix(M, t1, t2, i) ==
    IF i >= Len(M) THEN M
    ELSE DeletePairMatrix([M EXCEPT ![i + 1] = DeletePairCols(M[i + 1], t1, t2, 0, 0)],
                          t1, t2, i + 1)

DeletePair(d, t1, t2) ==
    LET names == DeletePairNames(d.Names, t1, t2, 0, 0)
        rows  == DeletePairRows(d.Matrix, t1, t2, 0, 0)
    IN  [d |-> [d EXCEPT !.Names = names,
                         !.Matrix = DeletePairMatrix(rows, t1, t2, 0)],
         out |-> "ok",
         ret |-> <<>>]

\* Append, the loop over the rows: row i gets data[i] as its last column
RECURSIVE AppendColumn(_, _, _, _)
AppendColumn(M, data, n, i) ==
    IF i >= n THEN M
    ELSE AppendColumn([M EXCEPT ![i + 1] = Append(M[i + 1], data[i + 1])], data, n, i + 1)

\* Append(name, data)
AppendTaxon(d, name, data) ==
    LET n == Len(d.Matrix)
        row == Append(data, 0)
    IN  IF n # Len(data)
        THEN [d |-> d, out |-> "fatal", ret |-> <<>>]
        ELSE [d |-> [d EXCEPT
                       !.Names = Append(d.Names, name),
                       !.Matrix = AppendColumn(Append(d.Matrix, row), row, n, 0)],
              out |-> "ok",
              ret |-> <<>>]

\* Min, the two loops: acc = <<min, minI, minJ>>
RECURSIVE MinLoop(_, _, _, _, _)
MinLoop(M, n, i, j, acc) ==
    IF i >= n THEN [ret |-> acc, panic |-> FALSE]
    ELSE IF j >= n THEN MinLoop(M, n, i + 1, 0, acc)
    ELSE IF i = j THEN MinLoop(M, n, i, j + 1, acc)
    ELSE IF ~InRange(M, i, j) THEN [ret |-> acc, panic |-> TRUE]
    ELSE IF FLess(M[i + 1][j + 1], acc[1])
         THEN MinLoop(M, n, i, j + 1, <<M[i + 1][j + 1], i, j>>)
         ELSE MinLoop(M, n, i, j + 1, acc)

Min(d) ==
    LET r == MinLoop(d.Matrix, Len(d.Names), 0, 0, <<MaxFloat64, 0, 0>>)
    IN  [d |-> d, out |-> IF r.panic THEN "panic" ELSE "ok", ret |-> r.ret]

\* Max, the two loops: acc = <<max, maxI, maxJ>>
RECURSIVE MaxLoop(_, _, _, _, _)
MaxLoop(M, n, i, j, acc) ==
    IF i >= n THEN [ret |-> acc, panic |-> FALSE]
    ELSE IF j >= n THEN MaxLoop(M, n, i + 1, 0, acc)
    ELSE IF i = j THEN MaxLoop(M, n, i, j + 1, acc)
    ELSE IF ~InRange(M, i, j) THEN [ret |-> acc, panic |-> TRUE]
    ELSE IF FLess(acc[1], M[i + 1][j + 1])
         THEN MaxLoop(M, n, i, j + 1, <<M[i + 1][j + 1], i, j>>)
         ELSE MaxLoop(M, n, i, j + 1, acc)

Max(d) ==
    LET r == MaxLoop(d.Matrix, Len(d.Names), 0, 0, <<0 - MaxFloat64, 0, 0>>)
    IN  [d |-> d, out |-> IF r.panic THEN "panic" ELSE "ok", ret |-> r.ret]

\* decimal digits of n >= 0
RECURSIVE Itoa(_)
Itoa(n) ==
    LET c == CASE n % 10 = 0 -> "0" [] n % 10 = 1 -> "1" [] n % 10 = 2 -> "2"
               [] n % 10 = 3 -> "3" [] n % 10 = 4 -> "4" [] n % 10 = 5 -> "5"
               [] n % 10 = 6 -> "6" [] n % 10 = 7 -> "7" [] n % 10 = 8 -> "8"
               [] n % 10 = 9 -> "9"
    IN  IF n < 10 THEN <<c>> ELSE Itoa(n \div 10) \o <<c>>

\* a finite distance that "%.3g" writes without rounding and without an
\* exponent: a whole number below 1000, or a whole number below 100 and a half
ThreeDigits(x) ==
    LET a == IF x < 0 THEN 0 - x ELSE x
    IN  IF a % 2 = 0 THEN a \div 2 < 1000 ELSE a \div 2 < 100

\* fmt.Sprintf("%.3g", x), for the infinities, NaN and ThreeDigits distances
Fmt3g(x) ==
    LET a == IF x < 0 THEN 0 - x ELSE x
    IN  IF x = NaN THEN <<"N", "a", "N">>
        ELSE IF x = PosInf THEN <<"+", "I", "n", "f">>
        ELSE IF x = NegInf THEN <<"-", "I", "n", "f">>
        ELSE (IF x < 0 THEN <<"-">> ELSE <<>>) \o Itoa(a \div 2)
                \o (IF a % 2 = 1 THEN <<".", "5">> ELSE <<>>)

\* String, "write matrix": the cells of line i, the name and the n distances
RECURSIVE StringCells(_, _, _, _)
StringCells(d, n, i, j) ==
    IF j >= n THEN <<>>
    ELSE <<Fmt3g(d.Matrix[i + 1][j + 1])>> \o StringCells(d, n, i, j + 1)

Max2(a, b) == IF a > b THEN a ELSE b

\* text/tabwriter with minwidth 1 and padding 2: the width of column k, the
\* widest cell k of the lines plus the padding
RECURSIVE ColumnWidth(_, _, _)
ColumnWidth(lines, k, i) ==
    IF i > Len(lines) THEN 1
    ELSE Max2(Len(lines[i][k]) + 2, ColumnWidth(lines, k, i + 1))

\* text/tabwriter: a line's cells; every cell but the last is padded with
\* blanks to the width of its column
RECURSIVE TabLine(_, _, _)
TabLine(lines, i, k) ==
    LET cell == lines[i][k]
    IN  IF k = Len(lines[i]) THEN cell \o <<"\n">>
        ELSE cell \o Make(" ", ColumnWidth(lines, k, 1) - Len(cell))
                  \o TabLine(lines, i, k + 1)

RECURSIVE TabLines(_, _)
TabLines(lines, i) ==
    IF i > Len(lines) THEN <<>> ELSE TabLine(lines, i, 1) \o TabLines(lines, i + 1)

\* String, the loop over the rows: the lines written so far
RECURSIVE StringLines(_, _, _, _)
StringLines(d, n, i, lines) ==
    IF i >= n THEN [lines |-> lines, panic |-> FALSE]
    ELSE IF i >= Len(d.Names) \/ (n > 0 /\ ~InRange(d.Matrix, i, n - 1))
    THEN [lines |-> lines, panic |-> TRUE]
    ELSE StringLines(d, n, i + 1,
                     Append(lines, <<d.Names[i + 1]>> \o StringCells(d, n, i, 0)))

\* String: the count on a line of its own, then the table
String(d) ==
    LET n == Len(d.Matrix)
        r == StringLines(d, n, 0, <<>>)
    IN  [d |-> d,
         out |-> IF r.panic THEN "panic" ELSE "ok",
         ret |-> IF r.panic THEN <<>> ELSE Itoa(n) \o <<"\n">> \o TabLines(r.lines, 1)]

---------------------------------------------------------------------------
(* Scanner.                                                                *)

\* SkipToHeader that skips nothing: the first line is the header
SkipNothing(r) == ReadString(r)

\* Scan, "skip to header line": read lines while they hold no digit
RECURSIVE SkipToHeader(_)
SkipToHeader(r) ==
    LET rd == ReadString(r)
    IN  IF ~rd.err /\ NoDigit(rd.l) THEN SkipToHeader(rd.rest) ELSE rd

\* Scan, "store row": fields[j] is parsed into row[j-1] for j = 1..n
RECURSIVE StoreRow(_, _, _, _)
StoreRow(row, fields, n, j) ==
    IF j > n THEN [row |-> row, out |-> "ok"]
    ELSE IF j >= Len(fields) THEN [row |-> row, out |-> "panic"]
    ELSE LET pf == ParseFloat(fields[j + 1])
             r1 == [row EXCEPT ![j] = pf.f]
         IN  IF pf.err THEN [row |-> r1, out |-> "fatal"]
             ELSE StoreRow(r1, fields, n, j + 1)

\* Scan, "read matrix": the n rows, row i from the next line of the stream
RECURSIVE ReadMatrix(_, _, _, _)
ReadMatrix(r, d, n, i) ==
    IF i >= n THEN [rest |-> r, d |-> d, out |-> "ok", ret |-> TRUE]
    ELSE LET rd == ReadString(r)
             fields == Fields(rd.l)
         IN  IF rd.err THEN [rest |-> rd.rest, d |-> d, out |-> "ok", ret |-> FALSE]
             ELSE IF Len(fields) = 0
             THEN [rest |-> rd.rest, d |-> d, out |-> "panic", ret |-> FALSE]
             ELSE LET d1 == [d EXCEPT !.Names[i + 1] = fields[1]]
                      sr == StoreRow(d1.Matrix[i + 1], fields, n, 1)
                      d2 == [d1 EXCEPT !.Matrix[i + 1] = sr.row]
                  IN  IF sr.out # "ok"
                      THEN [rest |-> rd.rest, d |-> d2, out |-> sr.out, ret |-> FALSE]
                      ELSE ReadMatrix(rd.rest, d2, n, i + 1)

\* Scan with the error of strconv.Atoi dropped (n, _ := strconv.Atoi(l))
ScanAnyCount(r, m, id) ==
    LET hd == SkipToHeader(r)
        a  == Atoi(TrimRight(hd.l))
    IN  IF hd.err
        THEN [rest |-> hd.rest, mat |-> m, nextId |-> id, out |-> "ok", ret |-> FALSE]
        ELSE IF a.n < 0
        THEN [rest |-> hd.rest, mat |-> m, nextId |-> id, out |-> "panic", ret |-> FALSE]
        ELSE LET rm == ReadMatrix(hd.rest, NewDistMat(a.n, id), a.n, 0)
             IN  [rest |-> rm.rest, mat |-> rm.d, nextId |-> id + 1,
                  out |-> rm.out, ret |-> rm.ret]

\* Scan: r the unread stream, m the scanner's mat, id the next identity.
\* Gives the unread stream and the scanner's mat afterwards, the value
\* returned (ret) and how the call ended (out).
Scan(r, m, id) ==
    LET hd == SkipToHeader(r)
        a  == Atoi(TrimRight(hd.l))
    IN  IF hd.err
        THEN [rest |-> hd.rest, mat |-> m, nextId |-> id, out |-> "ok", ret |-> FALSE]
        ELSE IF a.err
        THEN [rest |-> hd.rest, mat |-> m, nextId |-> id, out |-> "fatal", ret |-> FALSE]
        ELSE IF a.n < 0
        THEN [rest |-> hd.rest, mat |-> m, nextId |-> id, out |-> "panic", ret |-> FALSE]
        ELSE LET rm == ReadMatrix(hd.rest, NewDistMat(a.n, id), a.n, 0)
             IN  [rest |-> rm.rest, mat |-> rm.d, nextId |-> id + 1,
                  out |-> rm.out, ret |-> rm.ret]

\* DistanceMatrix: the scanner's mat
DistanceMatrix(m) == m

---------------------------------------------------------------------------
(* The streams of the model: a stream is written from segments, each a     *)
(* matrix block in PHYLIP format or a piece of other text.                 *)

\* a distance as written in a block: a whole number x >= 0, or Inf
DistText(x) == IF x = PosInf THEN <<"I", "n", "f">> ELSE Itoa(x)

\* the float64 a written distance stands for
DistValue(x) == IF x = PosInf THEN PosInf ELSE 2 * x

RECURSIVE RowText(_, _, _)
RowText(row, sep, j) ==
    IF j > Len(row) THEN <<>> ELSE sep \o DistText(row[j]) \o RowText(row, sep, j + 1)

RECURSIVE RowsText(_, _)
RowsText(b, i) ==
    IF i > Len(b.names) THEN <<>>
    ELSE b.names[i] \o RowText(b.dist[i], b.sep, 1) \o b.eol \o RowsText(b, i + 1)

\* a block: the count alone on its line, then one line per taxon
BlockText(b) == Itoa(Len(b.names)) \o b.eol \o RowsText(b, 1)

Block(names, dist, sep, eol) ==
    [kind |-> "block", names |-> names, dist |-> dist, sep |-> sep, eol |-> eol,
     text |-> <<>>]

Raw(text) ==
    [kind |-> "raw", names |-> <<>>, dist |-> <<>>, sep |-> <<>>, eol |-> <<>>,
     text |-> text]

LF   == <<"\n">>
CRLF == <<"\r", "\n">>
SP   == <<" ">>
TAB  == <<"\t">>

Blk0   == Block(<<>>, <<>>, SP, LF)
Blk1   == Block(<<<<"A">>>>, <<<<0>>>>, SP, LF)
BlkTab == Block(<<<<"C", "1">>>>, <<<<5>>>>, TAB, CRLF)
Blk2   == Block(<<<<"A">>, <<"B">>>>, <<<<0, 3>>, <<4, 0>>>>, SP, LF)
BlkInf == Block(<<<<"A">>, <<"B">>>>, <<<<0, PosInf>>, <<PosInf, 0>>>>, SP, LF)
Blk3   == Block(<<<<"A">>, <<"B">>, <<"C">>>>,
                <<<<0, 1, 7>>, <<1, 0, 5>>, <<6, 7, 0>>>>, SP, LF)

Blocks == {Blk0, Blk1, BlkTab, Blk2, BlkInf, Blk3}

AbcLine   == Raw(<<"a", "b", "c", "\n">>)                       \* a line without a digit
EmptyLine == Raw(<<"\n">>)                                      \* an empty line
BadCount  == Raw(<<"x", "1", "\n">>)                            \* a digit, but no count
NegCount  == Raw(<<"-", "1", "\n">>)                            \* a negative count
CutBlock  == Raw(<<"2", "\n", "A", " ", "0", " ", "3", "\n">>)  \* one row of two
BadDist   == Raw(<<"1", "\n", "A", " ", "x", "\n">>)            \* a distance that is no number
ShortRow  == Raw(<<"2", "\n", "A", " ", "0", "\n">>)            \* a row short of a field
NoNewline == Raw(<<"1", "\n", "A", " ", "0">>)                  \* no newline at the end
ReadError == Raw(<<IOErr>>)                                     \* the reader fails once

Fillers == {AbcLine, EmptyLine}

Raws == Fillers \cup {BadCount, NegCount, CutBlock, BadDist, ShortRow, NoNewline, ReadError}

Segs == Blocks \cup Raws

SegText(g) == IF g.kind = "block" THEN BlockText(g) ELSE g.text

RECURSIVE StreamText(_)
StreamText(ss) == IF Len(ss) = 0 THEN <<>> ELSE SegText(Head(ss)) \o StreamText(Tail(ss))

\* the streams of a caller who only scans: up to MaxSegs segments
SegSeqs == UNION { [1..k -> Segs] : k \in 0..MaxSegs }

\* the streams of a caller who also edits: one segment, or nothing
OneSeg == {<<>>} \cup {<<g>> : g \in Segs}

---------------------------------------------------------------------------
(* The program: a caller with one Scanner over a stream, who calls Scan,   *)
(* edits the matrix the scanner hands out (sc.DistanceMatrix()) or a       *)
(* matrix of its own (NewDistMat), in any order.                           *)

NoCall ==
    [op |-> "none", tgt |-> "-", a1 |-> 0, a2 |-> 0, name |-> <<>>, data |-> <<>>,
     pre |-> NilMat, ret |-> <<>>, out |-> "ok"]

Call(op, tgt, a1, a2, name, data, pre, ret, out) ==
    [op |-> op, tgt |-> tgt, a1 |-> a1, a2 |-> a2, name |-> name, data |-> data,
     pre |-> pre, ret |-> ret, out |-> out]

\* the caller has made no data slice yet
NoData == [arr |-> <<>>, len |-> 0, made |-> FALSE]

\* NewScanner(r) over the stream written from ss; nothing scanned, nothing made
Start(ss) ==
    /\ src = ss
    /\ rest = StreamText(src)
    /\ smat = NilMat
    /\ own = NilMat
    /\ nextId = 1
    /\ status = "ok"
    /\ results = <<>>
    /\ goodId = 0
    /\ last = NoCall
    /\ prev = NoCall
    /\ kept = TRUE
    /\ nEdits = 0
    /\ cdata = NoData
    /\ shared = {}
    /\ seen = [s |-> NilMat, o |-> NilMat, data |-> <<>>]

\* sc.Scan()
CallScan ==
    /\ status = "ok"
    /\ Len(results) < MaxScans
    /\ LET r == Scan(rest, smat, nextId)
       IN  /\ rest' = r.rest
           /\ smat' = r.mat
           /\ nextId' = r.nextId
           /\ status' = r.out
           /\ results' = IF r.out = "ok" THEN Append(results, r.ret) ELSE results
           /\ goodId' = IF r.out = "ok" /\ r.ret THEN r.mat.id ELSE goodId
           /\ last' = Call("Scan", "s", 0, 0, <<>>, <<>>, smat, <<r.ret>>, r.out)
           /\ shared' = IF r.mat.id = smat.id THEN shared ELSE shared \ {"s"}
    /\ prev' = last
    /\ UNCHANGED <<own, src, kept, nEdits, cdata, seen>>

\* own = NewDistMat(n)
CallNewDistMat ==
    /\ status = "ok"
    /\ nEdits < MaxEdits
    /\ \E n \in (0 - 1)..2 :
         /\ own' = IF n < 0 THEN own ELSE NewDistMat(n, nextId)
         /\ nextId' = IF n < 0 THEN nextId ELSE nextId + 1
         /\ status' = IF n < 0 THEN "panic" ELSE "ok"
         /\ last' = Call("NewDistMat", "o", n, 0, <<>>, <<>>, own, <<>>,
                         IF n < 0 THEN "panic" ELSE "ok")
         /\ kept' = (kept /\ n >= 0)
         /\ shared' = IF n < 0 THEN shared ELSE shared \ {"o"}
    /\ prev' = last
    /\ nEdits' = nEdits + 1
    /\ UNCHANGED <<rest, smat, src, results, goodId, cdata, seen>>

\* the DistMat a method is called on: sc.DistanceMatrix() or own
Target(t) == IF t = "s" THEN DistanceMatrix(smat) ELSE own

Targets == {t \in {"s", "o"} : Target(t).id # 0}

\* a method call on target t that ended as r says; pre: the arguments met
\* the method's preconditions
Method(t, op, a1, a2, name, data, r, pre) ==
    /\ smat' = IF t = "s" THEN r.d ELSE smat
    /\ own' = IF t = "o" THEN r.d ELSE own
    /\ status' = r.out
    /\ last' = Call(op, t, a1, a2, name, data, Target(t), r.ret, r.out)
    /\ prev' = last
    /\ kept' = (kept /\ pre)
    /\ nEdits' = nEdits + 1
    /\ UNCHANGED <<rest, nextId, src, results, goodId, cdata, shared, seen>>

CanEdit == status = "ok" /\ nEdits < MaxEdits

\* d.MakeSymmetrical()
CallMakeSymmetrical ==
    /\ CanEdit
    /\ \E t \in Targets :
         Method(t, "MakeSymmetrical", 0, 0, <<>>, <<>>, MakeSymmetrical(Target(t)), TRUE)

\* d.Delete(taxon)
CallDelete ==
    /\ CanEdit
    /\ \E t \in Targets : \E taxon \in (0 - 1)..Len(Target(t).Matrix) :
         Method(t, "Delete", taxon, 0, <<>>, <<>>, Delete(Target(t), taxon),
                InRange(Target(t).Matrix, taxon, taxon))

\* d.DeletePair(t1, t2)
CallDeletePair ==
    /\ CanEdit
    /\ \E t \in Targets : \E t1, t2 \in 0..Len(Target(t).Matrix) :
         Method(t, "DeletePair", t1, t2, <<>>, <<>>, DeletePair(Target(t), t1, t2),
                /\ t1 # t2
                /\ InRange(Target(t).Matrix, t1, t2))

\* the distances a caller appends: 1.0 and 7.0
DataVals == {2, 14}

NewName == <<"n", "e", "w">>

\* the data slices handed to Append on an n x n matrix: every slice of
\* length n, and one that is a distance too long
DataFor(n) == [1..n -> DataVals] \cup {Make(2, n + 1)}

\* d.Append(name, data)
CallAppend ==
    /\ CanEdit
    /\ \E t \in Targets :
         /\ Len(Target(t).Matrix) < MaxN
         /\ \E data \in DataFor(Len(Target(t).Matrix)) :
              Method(t, "Append", 0, 0, NewName, data,
                     AppendTaxon(Target(t), NewName, data),
                     Len(data) = Len(Target(t).Matrix))

\* d.Min()
CallMin ==
    /\ CanEdit
    /\ \E t \in Targets : Method(t, "Min", 0, 0, <<>>, <<>>, Min(Target(t)), TRUE)

\* d.Max()
CallMax ==
    /\ CanEdit
    /\ \E t \in Targets : Method(t, "Max", 0, 0, <<>>, <<>>, Max(Target(t)), TRUE)

\* d.String()
CallString ==
    /\ CanEdit
    /\ \E t \in Targets : Method(t, "String", 0, 0, <<>>, <<>>, String(Target(t)), TRUE)

Init == \E ss \in OneSeg : Start(ss)

InitScan == \E ss \in SegSeqs : Start(ss)

Next ==
    \/ CallScan
    \/ CallNewDistMat
    \/ CallMakeSymmetrical
    \/ CallDelete
    \/ CallDeletePair
    \/ CallAppend
    \/ CallMin
    \/ CallMax
    \/ CallString

\* the caller scans and edits
Spec == Init /\ [][Next]_vars

\* the caller only scans
SpecScan == InitScan /\ [][CallScan]_vars

---------------------------------------------------------------------------
(* A caller who keeps the slice it hands to Append.                        *)

\* data, as the caller sees it: cdata.arr[:cdata.len]
Data == SubSeq(cdata.arr, 1, cdata.len)

\* data = append(data, 0.0): written into the array of data if its capacity
\* is larger than its length, into a new array otherwise
AppendZero(c) ==
    IF Len(c.arr) > c.len
    THEN [arr |-> [c.arr EXCEPT ![c.len + 1] = 0], shares |-> TRUE]
    ELSE [arr |-> c.arr, shares |-> FALSE]

LastRow(d) == d.Matrix[Len(d.Matrix)]

\* the DistMat d, whose last row is stored in arr, read after arr was written
Sync(d, arr) ==
    IF Len(d.Matrix) = 0 THEN d
    ELSE [d EXCEPT !.Matrix[Len(d.Matrix)] = SubSeq(arr, 1, Len(LastRow(d)))]

\* the array arr after the row stored at its beginning was written as row
WriteBack(arr, row) == row \o SubSeq(arr, Len(row) + 1, Len(arr))

\* the distance a caller writes into its slice: 3.0
WriteVals == {6}

CanAlias == status = "ok" /\ nEdits < MaxAlias

\* what a step of the caller leaves behind: target t (or no target) became
\* r.d, the array of data became arr2, sh2 are the targets sharing it
Alias(t, op, a1, a2, r, arr2, sh2) ==
    /\ cdata' = [cdata EXCEPT !.arr = arr2]
    /\ shared' = sh2
    /\ smat' = IF t = "s" THEN r.d
               ELSE IF "s" \in sh2 THEN Sync(smat, arr2) ELSE smat
    /\ own' = IF t = "o" THEN r.d
              ELSE IF "o" \in sh2 THEN Sync(own, arr2) ELSE own
    /\ status' = r.out
    /\ last' = Call(op, t, a1, a2, <<>>, Data, IF t = "-" THEN NilMat ELSE Target(t),
                    r.ret, r.out)
    /\ prev' = last
    /\ seen' = [s |-> smat, o |-> own, data |-> Data]
    /\ nEdits' = nEdits + 1
    /\ UNCHANGED <<rest, nextId, src, results, goodId, kept>>

\* data := make([]float64, n, n + spare), filled with distances
CallerMake ==
    /\ status = "ok"
    /\ ~cdata.made
    /\ \E n \in 1..2 : \E vals \in [1..n -> DataVals] : \E spare \in 0..1 :
         cdata' = [arr |-> vals \o Make(0, spare), len |-> n, made |-> TRUE]
    /\ last' = Call("make", "-", 0, 0, <<>>, <<>>, NilMat, <<>>, "ok")
    /\ prev' = last
    /\ UNCHANGED <<rest, smat, own, nextId, status, src, results, goodId, kept, nEdits,
                   shared, seen>>

\* data[k] = v
CallerWrite ==
    /\ CanAlias
    /\ cdata.made
    /\ \E k \in 1..cdata.len : \E v \in WriteVals :
         Alias("-", "Write", k - 1, v, [d |-> NilMat, ret |-> <<>>, out |-> "ok"],
               [cdata.arr EXCEPT ![k] = v], shared)

\* d.Append(name, data) with the slice the caller keeps, on a matrix that
\* does not hold it yet
AliasAppend ==
    /\ CanAlias
    /\ cdata.made
    /\ \E t \in Targets \ shared :
         LET r == AppendTaxon(Target(t), NewName, Data)
             z == AppendZero(cdata)
             sh == r.out = "ok" /\ z.shares
         IN  Alias(t, "Append", 0, 0, r,
                   IF sh THEN z.arr ELSE cdata.arr,
                   IF sh THEN shared \cup {t} ELSE shared)

\* d.MakeSymmetrical(): a last row stored in the array of data is written there
AliasMakeSymmetrical ==
    /\ CanAlias
    /\ cdata.made
    /\ \E t \in Targets :
         LET r == MakeSymmetrical(Target(t))
         IN  Alias(t, "MakeSymmetrical", 0, 0, r,
                   IF t \in shared /\ Len(r.d.Matrix) > 0
                   THEN WriteBack(cdata.arr, LastRow(r.d)) ELSE cdata.arr,
                   shared)

\* d.Delete(taxon), taxon in range: no cell of the last row is written, and
\* the last row leaves the matrix
AliasDelete ==
    /\ CanAlias
    /\ cdata.made
    /\ \E t \in Targets : \E taxon \in 0..(Len(Target(t).Matrix) - 1) :
         Alias(t, "Delete", taxon, 0, Delete(Target(t), taxon), cdata.arr, shared \ {t})

\* d.DeletePair(t1, t2), two indices in range: unless the last row is one of
\* the two, it stays the last row and its cells are moved inside its array
AliasDeletePair ==
    /\ CanAlias
    /\ cdata.made
    /\ \E t \in Targets : \E t1, t2 \in 0..(Len(Target(t).Matrix) - 1) :
         /\ t1 # t2
         /\ LET r == DeletePair(Target(t), t1, t2)
                stays == Len(Target(t).Matrix) - 1 \notin {t1, t2}
            IN  Alias(t, "DeletePair", t1, t2, r,
                      IF t \in shared /\ stays
                      THEN WriteBack(cdata.arr, LastRow(r.d)) ELSE cdata.arr,
                      IF stays THEN shared ELSE shared \ {t})

NextAlias ==
    \/ CallScan
    \/ CallNewDistMat
    \/ CallerMake
    \/ CallerWrite
    \/ AliasAppend
    \/ AliasMakeSymmetrical
    \/ AliasDelete
    \/ AliasDeletePair

\* a scanner over nothing or over one block of one or two taxa
InitAlias == \E ss \in {<<>>, <<Blk1>>, <<Blk2>>} : Start(ss)

\* the caller keeps the slice it appends
SpecAlias == InitAlias /\ [][NextAlias]_vars

---------------------------------------------------------------------------
(* Properties.                                                             *)

\* len(names) == len(matrix) == len(matrix[i]) for every row i
Square(d) ==
    /\ Len(d.Names) = Len(d.Matrix)
    /\ \A i \in 1..Len(d.Matrix) : Len(d.Matrix[i]) = Len(d.Matrix)

\* the DistMat the last call was made on, as it is now
Now == Target(last.tgt)

\* the sum of two distances that MakeSymmetrical halves is never odd: no
\* mean of the model is rounded
ExactMeans ==
    \A t \in Targets : \A i, j \in 1..Len(Target(t).Matrix) :
        LET M == Target(t).Matrix
            big == {PosInf, NegInf, NaN}
        IN  (InRange(M, i - 1, j - 1) /\ InRange(M, j - 1, i - 1)
             /\ M[i][j] \notin big /\ M[j][i] \notin big)
            => (M[i][j] + M[j][i]) % 2 = 0

\* every finite distance is one that String writes without rounding
AllThreeDigits ==
    \A t \in Targets : \A i \in 1..Len(Target(t).Matrix) :
        \A j \in 1..Len(Target(t).Matrix[i]) :
            LET x == Target(t).Matrix[i][j]
            IN  x \in {PosInf, NegInf, NaN} \/ ThreeDigits(x)

\* C1: DistanceMatrix returns the matrix built by the most recent Scan that
\* returned true, or nil if no Scan has returned true; a Scan that returns
\* false leaves the matrix held before in place.
RetrieveLastGood ==
    status = "ok" => DistanceMatrix(smat).id = goodId

\* C2: Delete with an index outside 0 <= index < n is reported as an error
\* and leaves names and matrix as they were.
DeleteOutOfRangeReported ==
    (/\ last.op = "Delete"
     /\ Square(last.pre)
     /\ ~(0 <= last.a1 /\ last.a1 < Len(last.pre.Matrix)))
    => (/\ last.out # "ok"
        /\ Now.Names = last.pre.Names
        /\ Now.Matrix = last.pre.Matrix)

\* C3: as long as every call met its preconditions, names, matrix and every
\* row of the matrix have the same length after each call.
DimensionsAgree ==
    kept => Square(smat) /\ Square(own)

\* a pair of taxa deleted from a matrix that Append had grown to four taxa
DimensionsWitness ==
    /\ kept
    /\ status = "ok"
    /\ last.op = "DeletePair"
    /\ prev.op = "Append"
    /\ Len(last.pre.Names) = 4
    /\ Len(Now.Names) = 2

\* the segment g is where the first Scan finds its header: only lines without
\* a digit come before it
HeaderIs(ss, g) ==
    \E k \in 1..Len(ss) : ss[k] = g /\ \A j \in 1..(k - 1) : ss[j] \in Fillers

\* the last call is the first Scan
FirstScan == last.op = "Scan" /\ prev.op = "none"

\* C4 as claimed: a Scan of a stream whose header line reads abc ends in a
\* fatal parse error; it does not return.
AbcHeaderFatal ==
    (Len(src) > 0 /\ src[1] = AbcLine /\ FirstScan)
    => (status = "fatal" /\ results = <<>>)

\* C4, amended: a Scan that finds the header line x1 (a digit, but no count)
\* ends in a fatal parse error: it does not return and the scanner holds no
\* matrix.  A line abc has no digit and is skipped: the Scan ends as it does
\* on the stream without that line.
MalformedHeaderFatal ==
    /\ (HeaderIs(src, BadCount) /\ FirstScan)
       => (status = "fatal" /\ results = <<>> /\ smat = NilMat)
    /\ (Len(src) > 0 /\ src[1] = AbcLine /\ FirstScan)
       => LET r == Scan(StreamText(Tail(src)), NilMat, 1)
          IN  /\ status = r.out
              /\ rest = r.rest
              /\ smat = r.mat
              /\ last.ret = <<r.ret>>

\* the line abc was skipped and the header x1 ended the Scan fatally
MalformedHeaderWitness ==
    /\ src = <<AbcLine, BadCount>>
    /\ FirstScan
    /\ status = "fatal"

---------------------------------------------------------------------------
(* DeletePair, Append and Delete.                                          *)

\* the indices 0..n-1 other than t1 and t2, in ascending order
RECURSIVE Others(_, _, _, _)
Others(n, t1, t2, i) ==
    IF i >= n THEN <<>>
    ELSE IF i = t1 \/ i = t2 THEN Others(n, t1, t2, i + 1)
    ELSE <<i>> \o Others(n, t1, t2, i + 1)

\* d is what is left of the n x n matrix p once the taxa not in keep are gone
LeftOf(d, p, keep) ==
    /\ Len(d.Names) = Len(keep)
    /\ Len(d.Matrix) = Len(keep)
    /\ \A k \in 1..Len(keep) :
         /\ d.Names[k] = p.Names[keep[k] + 1]
         /\ Len(d.Matrix[k]) = Len(keep)
         /\ \A l \in 1..Len(keep) : d.Matrix[k][l] = p.Matrix[keep[k] + 1][keep[l] + 1]

\* the last call was DeletePair(t1, t2) on an n x n matrix with two
\* different indices in range
PairDeleted ==
    /\ last.op = "DeletePair"
    /\ Square(last.pre)
    /\ last.a1 # last.a2
    /\ InRange(last.pre.Matrix, last.a1, last.a2)

\* C5: DeletePair(t1, t2) removes the taxa at the positions t1 and t2 of the
\* matrix as it was, with their rows and columns, keeps the rest in order,
\* and gives what Delete(max(t1, t2)) followed by Delete(min(t1, t2)) gives.
DeletePairSimultaneous ==
    PairDeleted =>
        LET p  == last.pre
            hi == IF last.a1 > last.a2 THEN last.a1 ELSE last.a2
            lo == IF last.a1 > last.a2 THEN last.a2 ELSE last.a1
            two == Delete(Delete(p, hi).d, lo)
        IN  /\ last.out = "ok"
            /\ LeftOf(Now, p, Others(Len(p.Names), last.a1, last.a2, 0))
            /\ two.out = "ok"
            /\ Now.Names = two.d.Names
            /\ Now.Matrix = two.d.Matrix

\* neighbours deleted from a matrix of four taxa, the higher index given first
DeletePairWitness ==
    /\ PairDeleted
    /\ Len(last.pre.Names) = 4
    /\ last.a1 = 2
    /\ last.a2 = 1
    /\ Now.Names = <<<<"A">>, NewName>>

\* C6: Append(X, D) on an n x n matrix and then Delete(n) give back the names
\* and the matrix there were before the Append.
AppendThenDelete ==
    (/\ last.op = "Delete"
     /\ prev.op = "Append"
     /\ prev.out = "ok"
     /\ prev.tgt = last.tgt
     /\ Square(prev.pre)
     /\ last.a1 = Len(prev.pre.Matrix))
    => (/\ last.out = "ok"
        /\ Now.Names = prev.pre.Names
        /\ Now.Matrix = prev.pre.Matrix)

\* a taxon appended to a matrix of three taxa and deleted again
AppendThenDeleteWitness ==
    /\ last.op = "Delete"
    /\ prev.op = "Append"
    /\ prev.tgt = last.tgt
    /\ Len(prev.pre.Names) = 3
    /\ prev.data = <<2, 14, 2>>
    /\ last.a1 = 3
    /\ Now.Matrix = <<<<0, 2, 14>>, <<2, 0, 10>>, <<12, 14, 0>>>>

---------------------------------------------------------------------------
(* Min and Max.                                                            *)

\* a <= b and a = b on float64: false when either side is NaN
FLeq(a, b) == a # NaN /\ b # NaN /\ a <= b
FEq(a, b)  == a # NaN /\ b # NaN /\ a = b

\* the positions off the diagonal of an n x n matrix, counted from 0
OffDiagonal(n) == {c \in (0..(n - 1)) \X (0..(n - 1)) : c[1] # c[2]}

\* position a comes before position b in row-major order
Before(a, b) == a[1] < b[1] \/ (a[1] = b[1] /\ a[2] < b[2])

\* the last call was Min or Max on an n x n matrix with n >= 2
ExtremeTaken(op) ==
    /\ last.op = op
    /\ Square(last.pre)
    /\ Len(last.pre.Names) >= 2

\* C7: the value Min returns is <= every entry off the diagonal, the value
\* Max returns is >= every such entry, and the position returned is off the
\* diagonal and holds the value returned.
ExtremeBounds ==
    \A op \in {"Min", "Max"} :
        ExtremeTaken(op) =>
            LET M == last.pre.Matrix
                n == Len(M)
                v == last.ret[1]
                i == last.ret[2]
                j == last.ret[3]
            IN  /\ last.out = "ok"
                /\ <<i, j>> \in OffDiagonal(n)
                /\ FEq(M[i + 1][j + 1], v)
                /\ \A c \in OffDiagonal(n) :
                     IF op = "Min" THEN FLeq(v, M[c[1] + 1][c[2] + 1])
                                   ELSE FLeq(M[c[1] + 1][c[2] + 1], v)

\* the positions off the diagonal that hold the smallest (op = "Min") or
\* the largest (op = "Max") of the entries off the diagonal
Extremes(M, op) ==
    {c \in OffDiagonal(Len(M)) :
        \A e \in OffDiagonal(Len(M)) :
            IF op = "Min" THEN FLeq(M[c[1] + 1][c[2] + 1], M[e[1] + 1][e[2] + 1])
                          ELSE FLeq(M[e[1] + 1][e[2] + 1], M[c[1] + 1][c[2] + 1])}

\* C8: of the positions that hold the extreme value, Min and Max return the
\* first in row-major order.
ExtremeFirst ==
    \A op \in {"Min", "Max"} :
        ExtremeTaken(op) =>
            LET E == Extremes(last.pre.Matrix, op)
                c == <<last.ret[2], last.ret[3]>>
            IN  E # {} => (c \in E /\ \A e \in E : e = c \/ Before(c, e))

---------------------------------------------------------------------------
(* Streams of well-formed blocks.                                          *)

IsBlock(g) == g.kind = "block"

\* every segment is a block or a line without a digit
WellFormed(ss) == \A k \in 1..Len(ss) : ss[k] \in Blocks \cup Fillers

\* d holds the names and the distances written in block b
Holds(d, b) ==
    /\ d.Names = b.names
    /\ Len(d.Matrix) = Len(b.names)
    /\ \A i \in 1..Len(b.names) :
         /\ Len(d.Matrix[i]) = Len(b.names)
         /\ \A j \in 1..Len(b.names) : d.Matrix[i][j] = DistValue(b.dist[i][j])

\* C9: on a stream of k well-formed blocks with lines without a digit
\* between them, the m-th Scan returns true and leaves the m-th block in the
\* scanner for m <= k, and every Scan after the k-th returns false.
WellFormedScans ==
    (WellFormed(src) /\ last.op = "Scan") =>
        LET bs == SelectSeq(src, IsBlock)
            m  == Len(results)
        IN  /\ status = "ok"
            /\ m >= 1
            /\ m <= Len(bs) => (results[m] /\ Holds(DistanceMatrix(smat), bs[m]))
            /\ m > Len(bs) => ~results[m]

\* two blocks with a line between them, scanned to the end
WellFormedWitness ==
    /\ src = <<Blk3, AbcLine, BlkTab>>
    /\ results = <<TRUE, TRUE, FALSE>>
    /\ smat.Names = <<<<"C", "1">>>>
    /\ smat.Matrix = <<<<10>>>>

\* what the Scan calls before the last one returned
Earlier == IF status = "ok" THEN SubSeq(results, 1, Len(results) - 1) ELSE results

\* C10: once a Scan has returned false, every later Scan returns false and
\* leaves the scanner's matrix as it was, whatever was unread at that time.
ExhaustedIsTerminal ==
    (last.op = "Scan" /\ \E i \in 1..Len(Earlier) : ~Earlier[i])
    => (/\ status = "ok"
        /\ last.ret = <<FALSE>>
        /\ smat = last.pre)

---------------------------------------------------------------------------
(* Delete with an index in range.                                          *)

\* the last call was Delete(k) on an n x n matrix with 0 <= k < n
TaxonDeleted ==
    /\ last.op = "Delete"
    /\ Square(last.pre)
    /\ InRange(last.pre.Matrix, last.a1, last.a1)

\* C11: after Delete(k) with 0 <= k < n on an n x n matrix the matrix is
\* (n-1) x (n-1), the names are the names before without the one at k, and
\* the entry at the new positions of p, q # k is the entry that was at (p, q).
DeleteDimensionLaw ==
    TaxonDeleted =>
        LET p == last.pre
            n == Len(p.Names)
        IN  /\ last.out = "ok"
            /\ Len(Now.Names) = n - 1
            /\ Len(Now.Matrix) = n - 1
            /\ LeftOf(Now, p, Others(n, last.a1, last.a1, 0))

\* the taxon in the middle of a scanned matrix of three taxa deleted
DeleteDimensionWitness ==
    /\ TaxonDeleted
    /\ last.a1 = 1
    /\ last.pre.Names = <<<<"A">>, <<"B">>, <<"C">>>>
    /\ last.pre.Matrix = <<<<0, 2, 14>>, <<2, 0, 10>>, <<12, 14, 0>>>>
    /\ Now.Names = <<<<"A">>, <<"C">>>>
    /\ Now.Matrix = <<<<0, 14>>, <<12, 0>>>>

---------------------------------------------------------------------------
(* MakeSymmetrical.                                                        *)

\* the last call was MakeSymmetrical on an n x n matrix
Symmetrised ==
    /\ last.op = "MakeSymmetrical"
    /\ Square(last.pre)

\* C12: after MakeSymmetrical the entries at (i, j) and (j, i), i # j, both
\* hold the mean of the two entries there were; the diagonal, the names and
\* the dimension are as before; a second MakeSymmetrical changes nothing.
SymmetricalMeans ==
    Symmetrised =>
        LET p == last.pre.Matrix
            M == Now.Matrix
            n == Len(p)
        IN  /\ last.out = "ok"
            /\ Now.Names = last.pre.Names
            /\ Len(M) = n
            /\ \A i \in 1..n :
                 /\ Len(M[i]) = n
                 /\ M[i][i] = p[i][i]
                 /\ \A j \in 1..n :
                      i # j => /\ M[i][j] = FMean(p[i][j], p[j][i])
                               /\ M[j][i] = M[i][j]
            /\ MakeSymmetrical(Now).out = "ok"
            /\ MakeSymmetrical(Now).d = Now

\* the scanned matrix of three taxa, whose two triangles differ, averaged
SymmetricalWitness ==
    /\ Symmetrised
    /\ last.pre.Matrix = <<<<0, 2, 14>>, <<2, 0, 10>>, <<12, 14, 0>>>>
    /\ Now.Matrix = <<<<0, 2, 13>>, <<2, 0, 12>>, <<13, 12, 0>>>>

---------------------------------------------------------------------------
(* The last line of the stream.                                            *)

\* the stream is well-formed blocks and lines without a digit, then the
\* block of one taxon whose only row ends with the stream, not with "\n";
\* the last call is the Scan that reads that block
LastRowUnterminated ==
    /\ Len(src) >= 1
    /\ src[Len(src)] = NoNewline
    /\ WellFormed(SubSeq(src, 1, Len(src) - 1))
    /\ last.op = "Scan"
    /\ Len(Earlier) = Len(SelectSeq(SubSeq(src, 1, Len(src) - 1), IsBlock))

\* C13: a Scan whose last data row is ended by the end of the stream
\* instead of a newline returns true with the complete matrix.
FinalNewlineOptional ==
    LastRowUnterminated =>
        /\ status = "ok"
        /\ last.ret = <<TRUE>>
        /\ Holds(DistanceMatrix(smat), Blk1)

---------------------------------------------------------------------------
(* The storage of the caller's data slice.                                 *)

\* every matrix whose last row is recorded as stored in the array of data
\* holds what the array holds
SharedRowsAgree ==
    \A t \in shared :
        /\ Len(Target(t).Matrix) > 0
        /\ LastRow(Target(t)) = SubSeq(cdata.arr, 1, Len(LastRow(Target(t))))

\* C14: once Append has returned, a write of the caller into data changes
\* no entry of a matrix, and MakeSymmetrical, Delete, DeletePair or Append
\* on a matrix changes neither the caller's data nor the other matrix.
StorageNotShared ==
    /\ last.op = "Write" =>
         /\ smat = seen.s
         /\ own = seen.o
    /\ (last.op \in {"Append", "MakeSymmetrical", "Delete", "DeletePair"} /\ cdata.made) =>
         /\ Data = seen.data
         /\ last.tgt = "s" => own = seen.o
         /\ last.tgt = "o" => smat = seen.s

====
